---- MODULE Spec2Model ----
(***************************************************************************)
(* Model of the asynchronous resource pool (class Pool) and of the        *)
(* callback promises it hands to queued requests.                         *)
(*                                                                         *)
(* The private fields of the Pool object, the request handles and the     *)
(* runtime's pending work (timers, microtasks, factory calls in flight)   *)
(* are one record, st.  Every method of Pool is an operator from records  *)
(* to records, written statement by statement from the source, so that a  *)
(* handler that calls other methods (release -> #available -> #destroy -> *)
(* #flush) is one atomic step, as it is on the single JavaScript thread.  *)
(***************************************************************************)
EXTENDS Integers, Sequences, FiniteSets, TLC

\* ---------------------------------------------------------------- bounds
NItems == 2         \* items the factory can create successfully
MaxReq == 2         \* get calls that are queued (one more in SpecQueue)
MaxTime == 2        \* clock ticks (milliseconds)
MaxDestroying == 2  \* factory.destroy calls in flight when a stray item is released
NPromises == 2      \* callback promises made on one cancellation token
NCallbacks == 2     \* callbacks scheduled on one timeline
MaxTick == 2        \* the tick number a timeline gets to, and the ticks a callback is scheduled ahead
MaxRunning == 2     \* calls of #run and next that have not returned, and timers set by #run

\* ------------------------------------------------------ program constants
MAX_CREATE_FAILURES == 10
SWEEP_MAX_TTL == 600000
NULL == -1

Items == 1..NItems
\* an object the pool never created: it carries no pool element
Foreign == NItems + 1
Reqs == 1..(MaxReq + 1)

VARIABLES
  st,           \* the Pool object, its request handles and the runtime
  lent,         \* history: items a caller holds (got from get, not yet released)
  pooledOrder,  \* history: the idle items in the order they were pooled
  last,         \* history: what the last handler was called with and returned
  pr,           \* a cancellation token and the callback promises bound to it
  lm,           \* one call of limit: its promise p, its bound and its result
  tl            \* a Timeline, its callbacks and the jobs of the runtime

vars == <<st, lent, pooledOrder, last, pr, lm, tl>>

\* ---------------------------------------------------------------- helpers
Range(f) == {f[i] : i \in DOMAIN f}

Min(a, b) == IF a < b THEN a ELSE b

\* Array.prototype.indexOf: first index holding x, or 0 when absent
\* (sequences are 1-based, so 0 plays the part of JavaScript's -1)
IndexOf(seq, x) ==
  IF x \in Range(seq) THEN CHOOSE i \in 1..Len(seq) : seq[i] = x /\ \A j \in 1..(i - 1) : seq[j] # x
  ELSE 0

RemoveAt(seq, i) == SubSeq(seq, 1, i - 1) \o SubSeq(seq, i + 1, Len(seq))

\* Array.prototype.splice(ix, 1) with ix = indexOf(...): a negative index
\* counts from the end, so splice(-1, 1) removes the last element
SpliceIndexOf(seq, x) ==
  IF Len(seq) = 0 THEN seq
  ELSE IF IndexOf(seq, x) = 0 THEN RemoveAt(seq, Len(seq))
  ELSE RemoveAt(seq, IndexOf(seq, x))

Front(seq) == SubSeq(seq, 1, Len(seq) - 1)

\* ------------------------------------------------------- callback promise
\* cancelErr: the error made by the factory (or the generic one) is tagged
cancelErr(kind) == [kind |-> kind, tagged |-> TRUE]

\* this.#err.closing() / closed() / canceled(): a plain PoolError, no tag
PoolError(kind) == [kind |-> kind, tagged |-> FALSE]

NoError == [kind |-> "none", tagged |-> FALSE]

\* isCanceled(reason): the reason carries the SymErrCanceled tag
isCanceled(reason) == reason.kind # "none" /\ reason.tagged

UnusedHandle == [state |-> "unused", item |-> 0, err |-> NoError, ctx |-> FALSE]

\* promise<T>(ctx, errCanceled) for a token that is not cancelled yet
promise(hasCtx) == [state |-> "pending", item |-> 0, err |-> NoError, ctx |-> hasCtx]

\* CallbackPromise.resolve: settles a pending promise, otherwise a no-op
resolve(s, r, item) ==
  IF s.handles[r].state = "pending"
  THEN [s EXCEPT !.handles[r].state = "resolved", !.handles[r].item = item]
  ELSE s

\* CallbackPromise.reject: settles a pending promise, otherwise a no-op
reject(s, r, err) ==
  IF s.handles[r].state = "pending"
  THEN [s EXCEPT !.handles[r].state = "rejected", !.handles[r].err = err]
  ELSE s

\* ------------------------------------- callback promises on their own
Promises == 1..NPromises

\* a callback promise: sub says that its onCancel callback is registered on
\* the token, errCanceled which error factory it was made with
NoPromise == [state |-> "unused", value |-> 0, err |-> NoError, sub |-> FALSE, errCanceled |-> "none"]

\* Context.cancel(): a token that is not cancelled; err is the error that
\* cancel was called with ("none" without one)
NoPromises == [token |-> [canceled |-> FALSE, err |-> "none"], ps |-> [p \in Promises |-> NoPromise]]

\* cancelErr(msg, errCanceled): errCanceled() when a factory was passed,
\* else new Error(msg); tagged in both cases
cancelErrWith(msg, errCanceled) == cancelErr(IF errCanceled = "custom" THEN "custom" ELSE msg)

\* cbp.resolve overwriting a promise that has settled
cbResolve_overwrite(h, value) == [h EXCEPT !.state = "resolved", !.value = value, !.err = NoError]

\* cbp.resolve: the resolve function of the native promise
cbResolve(h, value) ==
  IF h.state = "pending" THEN [h EXCEPT !.state = "resolved", !.value = value] ELSE h

\* cbp.reject: the reject function of the native promise
cbReject(h, err) ==
  IF h.state = "pending" THEN [h EXCEPT !.state = "rejected", !.err = err] ELSE h

\* promise(ctx, errCanceled)
newPromise(token, hasCtx, errCanceled) ==
  LET cbp == [NoPromise EXCEPT !.state = "pending", !.errCanceled = errCanceled]
  IN  IF ~hasCtx THEN cbp
      ELSE IF token.canceled
      THEN cbReject(cbp, cancelErrWith("Context was already canceled", errCanceled))
      ELSE [cbp EXCEPT !.sub = TRUE]

\* runWithCancel, the onCancel callback
onCancel(h) ==
  cbReject(h, cancelErrWith("Context was canceled before callback resolved", h.errCanceled))

\* the token is cancelled with the error stored: every registered callback runs
tokenCancel(s, stored) ==
  [s EXCEPT !.token = [canceled |-> TRUE, err |-> stored],
            !.ps = [p \in Promises |-> IF s.ps[p].sub THEN onCancel(s.ps[p]) ELSE s.ps[p]]]

\* runWithCancel, the finally block: clr.off(onCancel)
runWithCancelFinally(h) == [h EXCEPT !.sub = FALSE]

\* ------------------------------------------------------------------ limit
timeoutError == [kind |-> "timeout", tagged |-> FALSE]

Unsettled == [state |-> "pending", value |-> 0, err |-> NoError]

\* before limit is called: the promise p, the token and the clock exist;
\* stage is where the chain p.finally().then().catch() has got to, first
\* which of p and the bound came first once limit was called
NoLimit ==
  [called |-> FALSE, p |-> Unsettled, out |-> Unsettled,
   canceled |-> FALSE, subscribed |-> FALSE, timer |-> NULL, rejected |-> FALSE,
   stage |-> "none", now |-> 0, first |-> "none"]

\* the chain attached to p starts when p is settled
attach(s) == [s EXCEPT !.stage = IF s.p.state # "pending" THEN "finally" ELSE "none",
                       !.first = IF s.p.state # "pending" THEN "p" ELSE "none"]

\* limit(p, ms) and limit(p, deadline): ms is the number passed, or the
\* deadline minus the current time
limitMs(s, ms) ==
  IF ms <= 0
  THEN [s EXCEPT !.called = TRUE, !.out = cbReject(@, timeoutError), !.first = "bound"]
  ELSE attach([s EXCEPT !.called = TRUE, !.timer = s.now + ms])

\* limitContext(p, ctx); hasCanceler: ctx is not null and has a canceler
limitContext(s, hasCanceler) ==
  IF ~hasCanceler THEN [attach(s) EXCEPT !.called = TRUE]
  ELSE IF s.canceled
  THEN [s EXCEPT !.called = TRUE, !.out = cbReject(@, timeoutError), !.first = "bound"]
  ELSE attach([s EXCEPT !.called = TRUE, !.subscribed = TRUE])

\* the finally callback: clearTimeout(timeout.token), clr.off(handler.cancel)
limitFinally(s) == [s EXCEPT !.timer = NULL, !.subscribed = FALSE, !.stage = "then"]

\* the then and catch callbacks
limitThen(s) ==
  IF s.rejected THEN [s EXCEPT !.stage = "done"]
  ELSE [s EXCEPT !.stage = "done",
                 !.out = IF s.p.state = "resolved" THEN cbResolve(@, s.p.value)
                         ELSE cbReject(@, s.p.err)]

\* clearAndCancel, the timer callback
clearAndCancel(s) ==
  [s EXCEPT !.timer = NULL, !.rejected = TRUE, !.out = cbReject(@, timeoutError),
            !.first = IF @ = "none" THEN "bound" ELSE @]

\* the token is cancelled: handler.cancel runs if it is registered
limitCancel(s) ==
  IF s.subscribed
  THEN [s EXCEPT !.canceled = TRUE, !.subscribed = FALSE, !.rejected = TRUE,
                 !.out = cbReject(@, timeoutError),
                 !.first = IF @ = "none" THEN "bound" ELSE @]
  ELSE [s EXCEPT !.canceled = TRUE]

\* p settles: its owner resolves or rejects it
settleP(s, ok, v) ==
  LET s1 == [s EXCEPT !.p = IF ok THEN cbResolve(@, v) ELSE cbReject(@, [kind |-> "failed", tagged |-> FALSE])]
  IN  IF s.called /\ s.stage = "none"
      THEN [s1 EXCEPT !.stage = "finally", !.first = IF @ = "none" THEN "p" ELSE @]
      ELSE s1

\* --------------------------------------------------------------- Timeline
Ids == 1..NCallbacks

\* an index of #buffer that was never assigned: reading it gives undefined
Hole == <<0>>

\* what a callback does when it is called: nothing ("sync"), return a promise
\* that its owner settles later ("async"), or call setTimeout(fn, arg),
\* clearTimeout(arg) or reset() on the timeline
Fn(kind, arg) == [kind |-> kind, arg |-> arg]

NoInfo == [fn |-> Fn("none", 0), tick |-> NULL]

\* the fields of a Timeline, the jobs of the runtime (mq: the microtask queue
\* of awaits ready to resume, blocked: awaits on a callback's promise, timers:
\* platform timers that call #run, result: the promise a callback returned),
\* and history: ran (the tick a callback was called on), cleared (ids
\* clearTimeout returned true for), stale (callbacks pending when a reset
\* completed), orphan (promises pending then), early (callbacks started while
\* a promise of an earlier tick was pending), lost (callbacks clearTimeout
\* removed besides its own), misreported (ids clearTimeout gave the wrong
\* answer for), fresh (a reset completed and start or next was not called since)
NewTimeline(autoTick) ==
  [autoTick |-> autoTick, nextId |-> 1, tick |-> 0, canceling |-> FALSE,
   running |-> FALSE, drained |-> TRUE, waitReset |-> FALSE, waitDrain |-> FALSE,
   isAwaiting |-> FALSE, map |-> {}, info |-> [i \in Ids |-> NoInfo],
   buffer |-> <<>>, currentFrame |-> <<>>,
   mq |-> <<>>, blocked |-> {}, timers |-> 0, result |-> [i \in Ids |-> "none"],
   ran |-> [i \in Ids |-> NULL], cleared |-> {}, stale |-> {}, orphan |-> {},
   early |-> {}, lost |-> {}, misreported |-> {}, fresh |-> FALSE, over |-> FALSE]

\* the callbacks that were scheduled and neither called, cleared nor reset
Pending(t) == {i \in 1..(t.nextId - 1) : t.ran[i] = NULL /\ i \notin t.cleared /\ i \notin t.stale}

\* the callbacks held in #currentFrame and #buffer
Queued(t) == (Range(t.currentFrame) \cup UNION {Range(t.buffer[i]) : i \in DOMAIN t.buffer}) \ {0}

resolveDrain(t) == [t EXCEPT !.drained = TRUE, !.waitDrain = FALSE]

resolveReset(t) == [t EXCEPT !.waitReset = FALSE]

completeReset(t) ==
  resolveDrain(resolveReset(
    [t EXCEPT !.canceling = FALSE, !.running = FALSE, !.tick = 0, !.buffer = <<>>,
              !.stale = @ \cup Pending(t),
              !.orphan = @ \cup {i \in Ids : t.result[i] = "pending"},
              !.fresh = TRUE]))

reset(t) ==
  IF (~t.running \/ t.drained) /\ ~t.autoTick THEN completeReset(t)
  ELSE [t EXCEPT !.canceling = TRUE, !.waitReset = TRUE]

drain(t) == IF ~t.running \/ t.drained THEN t ELSE [t EXCEPT !.waitDrain = TRUE]

\* clearTimeout returns "true" or "false", or throws the TypeError of
\* undefined.indexOf when #buffer has no stack at the callback's index
clearTimeoutResult(t, id) ==
  LET relativeTick == t.info[id].tick - t.tick - 1
  IN  IF id \notin t.map THEN "false"
      ELSE IF relativeTick < 0 THEN "true"
      ELSE IF relativeTick + 1 > Len(t.buffer) THEN "throws"
      ELSE IF t.buffer[relativeTick + 1] = Hole THEN "throws"
      ELSE "true"

clearTimeout(t, id) ==
  LET relativeTick == t.info[id].tick - t.tick - 1
      res == clearTimeoutResult(t, id)
      t1 == [t EXCEPT !.map = @ \ {id}]
      t2 == IF res = "false" THEN t
            ELSE IF res = "throws" THEN t1
            ELSE IF relativeTick < 0 THEN [t1 EXCEPT !.currentFrame = SpliceIndexOf(@, id)]
            ELSE [t1 EXCEPT !.buffer[relativeTick + 1] = SpliceIndexOf(@, id)]
  IN  [t2 EXCEPT !.cleared = IF res = "true" THEN @ \cup {id} ELSE @,
                 !.misreported = IF (res = "true") = (id \in Pending(t)) THEN @ ELSE @ \cup {id},
                 !.lost = @ \cup ((Queued(t) \ Queued(t2)) \ {id})]

\* one call of #run or of next: where it waits (pc "res": in #exec, on the
\* promise of callback wait; "exec": in #next, on #exec, which returned ret;
\* "next": in #run, on #next) and the results #exec has yet to look at
NewCall(canCancel) ==
  [run |-> canCancel, pc |-> "exec", phase |-> "pre", ret |-> TRUE, results |-> <<>>, wait |-> 0]

\* await on a promise that is already settled: the rest of the function is
\* a microtask
await(t, a) == [t EXCEPT !.mq = Append(@, a)]

\* await res in #exec
awaitResult(t, a) ==
  IF t.result[a.wait] = "settled" THEN await(t, a) ELSE [t EXCEPT !.blocked = @ \cup {a}]

execReturn(t, a, ret) ==
  await(t, [a EXCEPT !.pc = "exec", !.ret = ret, !.results = <<>>, !.wait = 0])

nextReturn(t, a) == IF a.run THEN await(t, [a EXCEPT !.pc = "next"]) ELSE t

\* assigning #buffer[n - 1] makes the array n long: the indexes between are holes
Pad(buffer, n) ==
  IF n <= Len(buffer) THEN buffer ELSE buffer \o [i \in 1..(n - Len(buffer)) |-> Hole]

RECURSIVE setTimeout(_, _, _)
RECURSIVE safe(_, _)
RECURSIVE execAwait(_, _, _)
RECURSIVE execCalls(_, _, _, _)
RECURSIVE exec(_, _, _)
RECURSIVE nextPre(_, _)
RECURSIVE nextFrame(_, _)
RECURSIVE nextPost(_, _)
RECURSIVE runLoop(_)
RECURSIVE run(_)

setTimeout(t, fn, ticks) ==
  IF t.nextId > NCallbacks THEN [t EXCEPT !.over = TRUE]
  ELSE
    LET id == t.nextId
        padded == Pad(t.buffer, ticks)
        stack == IF padded[ticks] = Hole THEN <<>> ELSE padded[ticks]
        t1 == [t EXCEPT !.drained = FALSE, !.nextId = id + 1,
                        !.info[id] = [fn |-> fn, tick |-> t.tick + ticks],
                        !.map = @ \cup {id},
                        !.currentFrame = IF ticks = 0 THEN Append(@, id) ELSE @,
                        !.buffer = IF ticks = 0 THEN @
                                   ELSE [padded EXCEPT ![ticks] = Append(stack, id)]]
    IN  IF t.running /\ t.drained /\ ~t.autoTick THEN run(t1) ELSE t1

\* safe(info.fn): the callback is called, what it throws is ignored
safe(t, id) ==
  LET fn == t.info[id].fn
      Before(j) == t.result[j] = "pending" /\ j \notin t.orphan /\ t.ran[j] < t.tick
      t1 == [t EXCEPT !.ran[id] = t.tick,
                      !.early = IF \E j \in Ids : Before(j) THEN @ \cup {id} ELSE @]
  IN  IF fn.kind = "async" THEN [t1 EXCEPT !.result[id] = "pending"]
      ELSE IF fn.kind = "sched" THEN setTimeout(t1, Fn("sync", 0), fn.arg)
      ELSE IF fn.kind = "clear" THEN clearTimeout(t1, fn.arg)
      ELSE IF fn.kind = "reset" THEN reset(t1)
      ELSE t1

\* #exec, second loop: await the promises among the results
execAwait(t, a, results) ==
  IF results = <<>> THEN execReturn(t, a, TRUE)
  ELSE IF a.run /\ t.canceling THEN execReturn(completeReset(t), a, FALSE)
  ELSE IF t.info[Head(results)].fn.kind = "async"
    THEN awaitResult([t EXCEPT !.isAwaiting = TRUE],
                     [a EXCEPT !.pc = "res", !.results = Tail(results), !.wait = Head(results)])
  ELSE execAwait(t, a, Tail(results))

\* #exec, first loop: start all callbacks of the stack
execCalls(t, a, rest, results) ==
  IF rest = <<>> THEN execAwait(t, a, results)
  ELSE LET id == Head(rest)
           t1 == safe([t EXCEPT !.map = @ \ {id}], id)
       IN  IF a.run /\ t1.canceling THEN execReturn(completeReset(t1), a, FALSE)
           ELSE execCalls(t1, a, Tail(rest), results)

exec(t, a, stack) ==
  IF stack = Hole \/ stack = <<>> THEN execReturn(t, a, TRUE)
  ELSE execCalls(t, a, stack, stack)

\* #next: the pre-frame flush of #currentFrame
nextPre(t, a) ==
  IF Len(t.currentFrame) > 0
    THEN exec([t EXCEPT !.currentFrame = <<>>], [a EXCEPT !.phase = "pre"], t.currentFrame)
  ELSE nextFrame(t, a)

\* #next: the frame is taken off #buffer and run
nextFrame(t, a) ==
  LET stack == IF t.buffer = <<>> THEN Hole ELSE Head(t.buffer)
  IN  exec([t EXCEPT !.buffer = IF @ = <<>> THEN @ ELSE Tail(@), !.tick = @ + 1],
           [a EXCEPT !.phase = "frame"], stack)

\* #next: the end-of-frame flush of #currentFrame
nextPost(t, a) ==
  IF Len(t.currentFrame) > 0
    THEN exec([t EXCEPT !.currentFrame = <<>>], [a EXCEPT !.phase = "post"], t.currentFrame)
  ELSE nextReturn(t, a)

\* #run from the test of its while loop
runLoop(t) ==
  IF Len(t.buffer) > 0 \/ Len(t.currentFrame) > 0
    THEN IF t.canceling THEN completeReset(t) ELSE nextPre(t, NewCall(TRUE))
  ELSE IF ~t.autoTick THEN resolveDrain(t)
  ELSE IF t.canceling THEN completeReset(resolveDrain(t))
  ELSE [resolveDrain(t) EXCEPT !.tick = @ + 1, !.timers = @ + 1]

run(t) == runLoop([t EXCEPT !.running = TRUE])

\* a microtask: the function that awaited goes on
resume(t, a) ==
  IF a.pc = "res" THEN execAwait([t EXCEPT !.isAwaiting = FALSE], a, a.results)
  ELSE IF a.pc = "exec"
    THEN IF ~a.ret THEN nextReturn(t, a)
         ELSE IF a.phase = "pre" THEN nextPre(t, a)
         ELSE nextPost(t, a)
  ELSE IF t.autoTick THEN [t EXCEPT !.timers = @ + 1]
  ELSE runLoop(t)

start(t) == IF t.running THEN t ELSE run([t EXCEPT !.fresh = FALSE])

next(t) ==
  IF t.running THEN t
  ELSE [nextPre([t EXCEPT !.running = TRUE, !.fresh = FALSE], NewCall(FALSE)) EXCEPT !.running = FALSE]

\* the owner of the promise callback id returned resolves or rejects it:
\* #exec ignores the difference
settle(t, id) ==
  [t EXCEPT !.result[id] = "settled",
            !.blocked = {a \in @ : a.wait # id},
            !.mq = @ \o (IF \E a \in t.blocked : a.wait = id
                         THEN <<CHOOSE a \in t.blocked : a.wait = id>> ELSE <<>>)]

\* a call of #run or next has not returned
InProgress(t) == \E a \in Range(t.mq) \cup t.blocked : ~a.run \/ a.ret

Bounded(t) ==
  /\ ~t.over
  /\ t.tick <= MaxTick
  /\ Len(t.mq) + Cardinality(t.blocked) + t.timers <= MaxRunning

\* ------------------------------------------------------------ Pool state
\* Pool's field initialisers and constructor; EmittingPoolOptions defaults
NewPool(opts, reqLimit) ==
  [ active |-> <<>>, pool |-> <<>>, queue |-> <<>>,
    created |-> [i \in Items |-> NULL], idled |-> [i \in Items |-> NULL],
    handles |-> [r \in Reqs |-> UnusedHandle],
    waitDuration |-> 0, maxIdleClosed |-> 0, maxIdleTimeClosed |-> 0, maxLifetimeClosed |-> 0,
    growing |-> FALSE, closing |-> FALSE, closed |-> FALSE,
    waitClose |-> "null", sweepTimeout |-> NULL,
    destroying |-> 0, creating |-> 0, createFailures |-> 0,
    maxLifetime |-> opts.maxLifetime, maxIdleTime |-> opts.maxIdleTime,
    maxOpenCount |-> opts.maxOpenCount, maxIdleCount |-> opts.maxIdleCount,
    parallelCreate |-> opts.parallelCreate,
    \* the runtime: clock, timers, microtasks, the objects made so far and
    \* the number of requests the callers queue at most
    now |-> 0, growTimers |-> 0, growAwait |-> "none", cleanup |-> {},
    nextItem |-> 1, nextReq |-> 1, reqLimit |-> reqLimit,
    \* what the handlers did: error events of this handler, the item this
    \* handler returned, items ever passed to factory.destroy, whether the
    \* close promise was resolved, the handle each active element was handed to,
    \* the number of promises close has made
    events |-> <<>>, ret |-> 0, destroyed |-> {}, closeResolved |-> FALSE,
    wonBy |-> [i \in Items |-> 0], closeMade |-> 0,
    \* when each request that is still pending entered the wait queue
    enqueued |-> [r \in Reqs |-> NULL] ]

DefaultOptions ==
  [maxLifetime |-> -1, maxIdleTime |-> -1, maxOpenCount |-> -1, maxIdleCount |-> -1,
   parallelCreate |-> TRUE]

\* Pool.#error: emit('error', action, reason)
error(s, action) == [s EXCEPT !.events = Append(@, action)]

\* flush that does not wait for the creates in flight
flush_early(s) ==
  IF ~s.closing THEN s
  ELSE IF s.destroying > 0 THEN s
  ELSE IF Len(s.active) > 0 THEN s
  ELSE [s EXCEPT !.closed = TRUE,
                 !.waitClose = "null",
                 !.closeResolved = @ \/ (s.waitClose # "null")]

\* Pool.#flush
flush(s) ==
  IF ~s.closing THEN s
  ELSE IF s.destroying > 0 THEN s
  ELSE IF s.creating > 0 THEN s
  ELSE IF Len(s.active) > 0 THEN s
  ELSE [s EXCEPT !.closed = TRUE,
                 !.waitClose = "null",
                 !.closeResolved = @ \/ (s.waitClose # "null")]

\* Pool.#destroy up to the await; dthrow: factory.destroy throws at once,
\* so that catch and finally run inside the calling handler
destroy(s, item, dthrow) ==
  LET s1 == [s EXCEPT !.destroying = @ + 1, !.destroyed = @ \cup {item}]
  IN  IF dthrow
      THEN LET s2 == [error(s1, "destroy") EXCEPT !.destroying = @ - 1]
           IN  IF s2.destroying = 0 THEN flush(s2) ELSE s2
      ELSE s1

\* Pool.#destroy after the await: factory.destroy settled
destroySettled(s, ok) ==
  LET s1 == IF ok THEN s ELSE error(s, "destroy")
      s2 == [s1 EXCEPT !.destroying = @ - 1]
  IN  IF s2.destroying = 0 THEN flush(s2) ELSE s2

\* sinceMs
sinceMs(s, time) == s.now - time

\* Pool.#isExpired, the value returned
isExpired(s, el) ==
  IF s.maxLifetime > 0 /\ sinceMs(s, s.created[el]) > s.maxLifetime THEN TRUE
  ELSE IF s.maxIdleTime > 0 /\ s.idled[el] # NULL /\ sinceMs(s, s.idled[el]) > s.maxIdleTime THEN TRUE
  ELSE FALSE

\* Pool.#isExpired, the counter it increments when it returns true
isExpiredCount(s, el) ==
  IF s.maxLifetime > 0 /\ sinceMs(s, s.created[el]) > s.maxLifetime
  THEN [s EXCEPT !.maxLifetimeClosed = @ + 1]
  ELSE IF s.maxIdleTime > 0 /\ s.idled[el] # NULL /\ sinceMs(s, s.idled[el]) > s.maxIdleTime
  THEN [s EXCEPT !.maxIdleTimeClosed = @ + 1]
  ELSE s

\* Pool.#ttl (NULL when there is no deadline)
ttl(s, el) ==
  LET remLifetime == IF s.maxLifetime > 0 THEN s.maxLifetime - sinceMs(s, s.created[el]) ELSE -1
      remIdletime == IF s.maxIdleTime > 0 /\ s.idled[el] # NULL
                     THEN s.maxIdleTime - sinceMs(s, s.idled[el]) ELSE -1
  IN  IF remLifetime < 0 /\ remIdletime < 0 THEN NULL
      ELSE IF remLifetime < 0 THEN remIdletime
      ELSE IF remIdletime < 0 THEN remLifetime
      ELSE Min(remLifetime, remIdletime)

\* pushSweep that never replaces a timer that is already set
pushSweep_keep(s, t) ==
  IF s.sweepTimeout # NULL THEN s
  ELSE [s EXCEPT !.sweepTimeout = s.now + t]

\* Pool.#pushSweep; sweepTimeout holds the deadline the timer is set for
pushSweep(s, t) ==
  LET deadline == s.now + t
  IN  IF s.sweepTimeout # NULL /\ s.sweepTimeout < deadline THEN s
      ELSE [s EXCEPT !.sweepTimeout = deadline]

\* Pool.#clearSweep
clearSweep(s) == [s EXCEPT !.sweepTimeout = NULL]

\* availableUse reading the first request (queue[0]) without shifting it
availableUse_peek(s, el, dthrow) ==
  IF Len(s.queue) > 0
  THEN LET req == Head(s.queue)
       IN  resolve([s EXCEPT !.active = Append(@, el), !.wonBy[el] = req], req, el)
  ELSE IF s.maxIdleCount > 0 /\ Len(s.pool) >= s.maxIdleCount
  THEN destroy([s EXCEPT !.maxIdleClosed = @ + 1], el, dthrow)
  ELSE LET s1 == [s EXCEPT !.idled[el] = s.now, !.pool = Append(@, el)]
       IN  IF ttl(s1, el) # NULL THEN pushSweep(s1, ttl(s1, el)) ELSE s1

\* #available that skips step 2 and pools the element although a request waits
availableUse_pooled(s, el, dthrow) ==
  IF s.maxIdleCount > 0 /\ Len(s.pool) >= s.maxIdleCount
  THEN destroy([s EXCEPT !.maxIdleClosed = @ + 1], el, dthrow)
  ELSE LET s1 == [s EXCEPT !.idled[el] = s.now, !.pool = Append(@, el)]
       IN  IF ttl(s1, el) # NULL THEN pushSweep(s1, ttl(s1, el)) ELSE s1

\* Pool.#available, steps 2 and 3: hand to the next request, else pool
availableUse(s, el, dthrow) ==
  IF Len(s.queue) > 0
  THEN LET req == Head(s.queue)
       IN  resolve([s EXCEPT !.queue = Tail(@),
                             !.active = Append(@, el),
                             !.wonBy[el] = req], req, el)
  ELSE IF s.maxIdleCount > 0 /\ Len(s.pool) >= s.maxIdleCount
  THEN destroy([s EXCEPT !.maxIdleClosed = @ + 1], el, dthrow)
  ELSE LET s1 == [s EXCEPT !.idled[el] = s.now, !.pool = Append(@, el)]
       IN  IF ttl(s1, el) # NULL THEN pushSweep(s1, ttl(s1, el)) ELSE s1

\* Pool.#available, step 1: destroy even if requests are waiting
available(s, el, dthrow) ==
  LET tot == Len(s.active) + Len(s.pool)
  IN  IF s.closing THEN destroy(s, el, dthrow)
      ELSE IF isExpired(s, el) THEN destroy(isExpiredCount(s, el), el, dthrow)
      ELSE IF s.maxOpenCount > 0 /\ tot >= s.maxOpenCount
      THEN destroy([s EXCEPT !.maxIdleClosed = @ + 1], el, dthrow)
      ELSE availableUse(s, el, dthrow)

\* Pool.#created
created(s, item, dthrow) ==
  IF s.closed \/ s.closing THEN destroy(s, item, dthrow)
  ELSE available([s EXCEPT !.created[item] = s.now, !.idled[item] = NULL], item, dthrow)

\* release treating an item that is not in active like an active one
release_poolStray(s, item, resetThrows, dthrow) ==
  LET s1 == [s EXCEPT !.active = IF IndexOf(s.active, item) = 0 THEN @
                                  ELSE RemoveAt(@, IndexOf(s.active, item))]
  IN  IF resetThrows THEN destroy(error(s1, "reset"), item, dthrow)
      ELSE available(s1, item, dthrow)

\* release going on to #available although factory.reset threw
release_resetIgnored(s, item, resetThrows, dthrow) ==
  IF IndexOf(s.active, item) = 0 THEN destroy(s, item, dthrow)
  ELSE LET s1 == [s EXCEPT !.active = RemoveAt(@, IndexOf(s.active, item))]
       IN  IF resetThrows THEN available(error(s1, "reset"), item, dthrow)
           ELSE available(s1, item, dthrow)

\* Pool.release; resetThrows: factory.reset is provided and throws
release(s, item, resetThrows, dthrow) ==
  IF IndexOf(s.active, item) = 0 THEN destroy(s, item, dthrow)
  ELSE LET s1 == [s EXCEPT !.active = RemoveAt(@, IndexOf(s.active, item))]
       IN  IF resetThrows THEN destroy(error(s1, "reset"), item, dthrow)
           ELSE available(s1, item, dthrow)

\* Pool.#processClose, first loop: reject all requests
RECURSIVE rejectQueue(_)
rejectQueue(s) ==
  IF Len(s.queue) = 0 THEN s
  ELSE LET req == s.queue[Len(s.queue)]
       IN  rejectQueue(reject([s EXCEPT !.queue = Front(@)], req, PoolError("Closing")))

\* Pool.#processClose, second loop: destroy all idle items
RECURSIVE destroyPool(_, _)
destroyPool(s, dthrow) ==
  IF Len(s.pool) = 0 THEN s
  ELSE LET el == s.pool[Len(s.pool)]
       IN  destroyPool(destroy([s EXCEPT !.pool = Front(@)], el, dthrow), dthrow)

\* Pool.#processClose, third loop: fn(active.pop().item); fn either calls
\* release(item) before it returns ("release") or leaves that to later ("hold")
RECURSIVE closeActive(_, _, _)
closeActive(s, fn, dthrow) ==
  IF Len(s.active) = 0 THEN s
  ELSE LET el == s.active[Len(s.active)]
           s1 == [s EXCEPT !.active = Front(@)]
       IN  closeActive(IF fn = "release" THEN release(s1, el, FALSE, dthrow) ELSE s1, fn, dthrow)

\* Pool.#processClose
processClose(s, fn, dthrow) ==
  LET s1 == destroyPool(rejectQueue(s), dthrow)
      s2 == IF Len(s1.active) > 0 /\ fn # "none" THEN closeActive(s1, fn, dthrow) ELSE s1
  IN  flush(s2)

\* close running the shutdown again when the pool is already closing
close_again(s, fn, dthrow) ==
  IF s.closed THEN s
  ELSE processClose(clearSweep([s EXCEPT !.closing = TRUE, !.waitClose = "pending",
                                          !.closeMade = @ + 1]), fn, dthrow)

\* Pool.close
close(s, fn, dthrow) ==
  IF s.closed THEN s
  ELSE IF s.closing THEN s
  ELSE processClose(clearSweep([s EXCEPT !.closing = TRUE, !.waitClose = "pending",
                                          !.closeMade = @ + 1]), fn, dthrow)

\* Pool.close, the promise it returns: Promise.resolve(), this.#waitClose,
\* or the promise it has just made
closeResult(s) ==
  IF s.closed THEN "resolved"
  ELSE IF s.closing THEN "waitClose"
  ELSE "new"

\* createFailed without the call of #error
createFailed_silent(s, dthrow) ==
  LET s1 == [s EXCEPT !.createFailures = @ + 1]
      s2 == IF s1.createFailures >= MAX_CREATE_FAILURES THEN close(s1, "none", dthrow) ELSE s1
  IN  [s2 EXCEPT !.creating = @ - 1]

\* Pool.#create, catch and finally: the create call failed
createFailed(s, dthrow) ==
  LET s1 == [error(s, "create") EXCEPT !.createFailures = @ + 1]
      s2 == IF s1.createFailures >= MAX_CREATE_FAILURES THEN close(s1, "none", dthrow) ELSE s1
  IN  [s2 EXCEPT !.creating = @ - 1]

\* Pool.#create, try and finally and #created: the create call resolved
createSucceeded(s, item, dthrow) ==
  created([s EXCEPT !.createFailures = 0, !.creating = @ - 1], item, dthrow)

\* Pool.#grow, after the loop
growEnd(s) ==
  LET s1 == [s EXCEPT !.growing = FALSE]
      s2 == IF ~s1.closed /\ ~s1.closing /\ Len(s1.queue) > 0 /\ s1.creating = 0
            THEN [s1 EXCEPT !.growTimers = @ + 1]
            ELSE s1
  IN  flush(s2)

\* Pool.#grow, the loop; outcomes[i] says whether the i-th factory.create
\* call throws at once ("throw") or returns a pending promise ("async")
RECURSIVE growLoop(_, _, _, _, _)
growLoop(s, i, needed, outcomes, dthrow) ==
  IF i > needed THEN growEnd(s)
  ELSE LET s1 == [s EXCEPT !.creating = @ + 1]
           s2 == IF outcomes[i] = "throw" THEN createFailed(s1, dthrow) ELSE s1
       IN  IF s2.parallelCreate = FALSE
           THEN [s2 EXCEPT !.growAwait = IF outcomes[i] = "throw" THEN "ready" ELSE "create"]
           ELSE growLoop(s2, i + 1, needed, outcomes, dthrow)

\* grow that does not subtract the creates in flight from the number needed
grow_uncounted(s, outcomes, dthrow) ==
  IF s.growing THEN s
  ELSE LET s1 == [s EXCEPT !.growing = TRUE]
           needed0 == IF s.maxOpenCount > 0
                      THEN Min(Len(s.queue), s.maxOpenCount - Len(s.active))
                      ELSE Len(s.queue)
       IN  IF s.maxOpenCount > 0 /\ Len(s.active) >= s.maxOpenCount
           THEN [s1 EXCEPT !.growing = FALSE]
           ELSE growLoop(s1, 1, needed0, outcomes, dthrow)

\* Pool.#grow
grow(s, outcomes, dthrow) ==
  IF s.growing THEN s
  ELSE LET s1 == [s EXCEPT !.growing = TRUE]
           needed0 == IF s.maxOpenCount > 0
                      THEN Min(Len(s.queue), s.maxOpenCount - Len(s.active))
                      ELSE Len(s.queue)
       IN  IF s.maxOpenCount > 0 /\ Len(s.active) >= s.maxOpenCount
           THEN [s1 EXCEPT !.growing = FALSE]
           ELSE growLoop(s1, 1, needed0 - s.creating, outcomes, dthrow)

\* getIdle taking the oldest idle element (shift) instead of the newest
getIdle_shift(s) ==
  LET el == Head(s.pool)
  IN  [s EXCEPT !.pool = Tail(@), !.idled[el] = NULL, !.ret = el]

\* Pool.get, "Immediate resolve: Existing idle"
getIdle(s) ==
  LET el == s.pool[Len(s.pool)]
  IN  [s EXCEPT !.pool = Front(@), !.idled[el] = NULL, !.ret = el]

\* Pool.get, "Enqueue the request" and the call of #grow
getEnqueue(s, hasCtx, outcomes, dthrow) ==
  LET handle == s.nextReq
      s1 == [s EXCEPT !.handles[handle] = promise(hasCtx),
                      !.queue = Append(@, handle),
                      !.nextReq = @ + 1]
  IN  grow(s1, outcomes, dthrow)

\* Pool.get, which way it returns: #checkStatus throws, the promise is
\* rejected at once, resolved at once, or is the handle of a queued request
getResult(s, ctx) ==
  IF s.closed THEN "throwClosed"
  ELSE IF s.closing THEN "throwClosing"
  ELSE IF ctx = "canceled" THEN "rejected"
  ELSE IF Len(s.pool) > 0 THEN "resolved"
  ELSE "queued"

\* Pool.get, the reason of the throw or of the immediate rejection
getError(s, ctx) ==
  IF s.closed THEN PoolError("Closed")
  ELSE IF s.closing THEN PoolError("Closing")
  ELSE IF ctx = "canceled" THEN PoolError("Canceled")
  ELSE NoError

\* get without the call of #checkStatus
get_unchecked(s, ctx, outcomes, dthrow) ==
  IF ctx = "canceled" THEN s
  ELSE IF Len(s.pool) > 0 THEN getIdle(s)
  ELSE getEnqueue(s, ctx = "live", outcomes, dthrow)

\* Pool.get; ctx is "none", "live" (token not cancelled) or "canceled"
get(s, ctx, outcomes, dthrow) ==
  IF s.closed \/ s.closing THEN s
  ELSE IF ctx = "canceled" THEN s
  ELSE IF Len(s.pool) > 0 THEN getIdle(s)
  ELSE getEnqueue(s, ctx = "live", outcomes, dthrow)

\* the token of a queued request is cancelled: onCancel in runWithCancel
\* rejects the handle with the tagged error; the catch callback that get
\* attached runs later, as a microtask
cancel(s, handle) ==
  IF s.handles[handle].state = "pending"
  THEN [reject(s, handle, cancelErr("Canceled")) EXCEPT !.cleanup = @ \cup {handle}]
  ELSE s

\* Pool.get, the catch callback: queue.splice(queue.indexOf(handle), 1)
getCatch(s, handle) ==
  LET s1 == [s EXCEPT !.cleanup = @ \ {handle}]
  IN  IF isCanceled(s.handles[handle].err)
      THEN [s1 EXCEPT !.queue = SpliceIndexOf(@, handle)]
      ELSE s1

\* Pool.#sweep, the loop over the pool, newest first
RECURSIVE sweepLoop(_, _, _, _)
sweepLoop(s, i, t, dthrow) ==
  IF i < 1 THEN (IF Len(s.pool) > 0 THEN pushSweep(s, t) ELSE s)
  ELSE LET el == s.pool[i]
       IN  IF isExpired(s, el)
           THEN sweepLoop(destroy([isExpiredCount(s, el) EXCEPT !.pool = RemoveAt(@, i)], el, dthrow),
                          i - 1, t, dthrow)
           ELSE sweepLoop(s, i - 1, IF ttl(s, el) # NULL THEN Min(t, ttl(s, el)) ELSE t, dthrow)

\* the timer callback set by Pool.#pushSweep, and Pool.#sweep
sweep(s, dthrow) ==
  LET s1 == [s EXCEPT !.sweepTimeout = NULL]
  IN  sweepLoop(s1, Len(s1.pool), SWEEP_MAX_TTL, dthrow)

\* Pool.#onMaxLifetime (the value is already stored when it runs)
onMaxLifetime(s, value) ==
  IF value = 0 THEN s
  ELSE IF value <= 0 THEN (IF s.maxIdleTime < 0 THEN clearSweep(s) ELSE s)
  ELSE IF Len(s.pool) = 0 THEN s
  ELSE pushSweep(s, 0)

\* Pool.#onMaxIdleTime
onMaxIdleTime(s, value) ==
  IF value = 0 THEN s
  ELSE IF value <= 0 THEN (IF s.maxLifetime < 0 THEN clearSweep(s) ELSE s)
  ELSE IF Len(s.pool) = 0 THEN s
  ELSE pushSweep(s, 0)

\* trimPool retiring the newest idle items (pop) instead of the oldest
RECURSIVE trimPool_newest(_, _, _)
trimPool_newest(s, limit, dthrow) ==
  IF Len(s.pool) > 0 /\ Len(s.pool) > limit
  THEN LET el == s.pool[Len(s.pool)]
       IN  trimPool_newest(destroy([s EXCEPT !.pool = Front(@), !.maxIdleClosed = @ + 1], el, dthrow),
                           limit, dthrow)
  ELSE s

\* the trimming loops of #onMaxOpenCount and #onMaxIdleCount: retire the
\* oldest idle items while more than limit of them remain
RECURSIVE trimPool(_, _, _)
trimPool(s, limit, dthrow) ==
  IF Len(s.pool) > 0 /\ Len(s.pool) > limit
  THEN LET el == Head(s.pool)
       IN  trimPool(destroy([s EXCEPT !.pool = Tail(@), !.maxIdleClosed = @ + 1], el, dthrow),
                    limit, dthrow)
  ELSE s

\* Pool.#onMaxOpenCount
onMaxOpenCount(s, value, outcomes, dthrow) ==
  IF value = 0 THEN s
  ELSE LET s1 == IF Len(s.queue) > 0 THEN grow(s, outcomes, dthrow) ELSE s
           aCount == Len(s1.active)
       IN  IF value <= 0 THEN s1
           ELSE IF Len(s1.pool) = 0 THEN s1
           ELSE IF Len(s1.pool) + aCount <= value THEN s1
           ELSE trimPool(s1, value - aCount, dthrow)

\* Pool.#onMaxIdleCount
onMaxIdleCount(s, value, dthrow) ==
  IF value <= 0 THEN s
  ELSE IF Len(s.pool) <= value THEN s
  ELSE trimPool(s, value, dthrow)

\* a setter of EmittingPoolOptions: it stores the value and then emits the
\* event, whose listener is the matching #onMax... handler
setter(s, key, value, outcomes, dthrow) ==
  CASE key = "maxLifetime" ->
         IF value = s.maxLifetime THEN s
         ELSE onMaxLifetime([s EXCEPT !.maxLifetime = value], value)
    [] key = "maxIdleTime" ->
         IF value = s.maxIdleTime THEN s
         ELSE onMaxIdleTime([s EXCEPT !.maxIdleTime = value], value)
    [] key = "maxOpenCount" ->
         IF value = s.maxOpenCount THEN s
         ELSE onMaxOpenCount([s EXCEPT !.maxOpenCount = value], value, outcomes, dthrow)
    [] key = "maxIdleCount" ->
         IF value = s.maxIdleCount THEN s
         ELSE onMaxIdleCount([s EXCEPT !.maxIdleCount = value], value, dthrow)

\* a setter throws: the handler it emits to throws its PoolError
setterThrows(s, key, value) ==
  \/ key = "maxLifetime" /\ value # s.maxLifetime /\ value = 0
  \/ key = "maxIdleTime" /\ value # s.maxIdleTime /\ value = 0
  \/ key = "maxOpenCount" /\ value # s.maxOpenCount /\ value = 0

\* Pool.setOptions with one key: #checkStatus, then the setter
setOptions(s, key, value, outcomes, dthrow) ==
  IF s.closed \/ s.closing THEN s
  ELSE setter(s, key, value, outcomes, dthrow)

\* Pool.setOptions, whether it throws: #checkStatus or a handler's PoolError
setOptionsThrows(s, key, value) ==
  \/ s.closed \/ s.closing
  \/ setterThrows(s, key, value)

\* Object.assign(this.#options, options): the setters run in the order of
\* the keys of options, <<key, value>> pairs here, until one throws
RECURSIVE assign(_, _, _, _)
assign(s, options, outcomes, dthrow) ==
  IF options = <<>> THEN s
  ELSE LET key == Head(options)[1]
           value == Head(options)[2]
           s1 == setter(s, key, value, outcomes, dthrow)
       IN  IF setterThrows(s, key, value) THEN s1
           ELSE assign(s1, Tail(options), outcomes, dthrow)

\* Object.assign(this.#options, options), whether a setter throws
RECURSIVE assignThrows(_, _, _, _)
assignThrows(s, options, outcomes, dthrow) ==
  IF options = <<>> THEN FALSE
  ELSE LET key == Head(options)[1]
           value == Head(options)[2]
       IN  \/ setterThrows(s, key, value)
           \/ assignThrows(setter(s, key, value, outcomes, dthrow), Tail(options), outcomes, dthrow)

\* Pool.setOptions with several keys
setOptionsAll(s, options, outcomes, dthrow) ==
  IF s.closed \/ s.closing THEN s
  ELSE assign(s, options, outcomes, dthrow)

\* ----------------------------------------------------------- the runtime
\* a microtask is queued: timers and the clock wait until it has run
MicrotaskPending(s) == s.cleanup # {} \/ s.growAwait = "ready"

\* what the factory.create calls of one #grow pass do, one entry per call
AllAsync == [i \in Reqs |-> "async"]
AnyOutcome == [1..MaxReq -> {"async", "throw"}]

\* ---------------------------------------------------------------- history
NoCall == [op |-> "new", item |-> 0, res |-> "", err |-> NoError]

Call(op, item, res, err) == [op |-> op, item |-> item, res |-> res, err |-> err]

\* a handler no property refers to
Other == Call("other", 0, "", NoError)

\* the items that requests were resolved with between s and s2
Resolved(s, s2) ==
  {s2.handles[r].item : r \in {q \in Reqs : s.handles[q].state = "pending"
                                            /\ s2.handles[q].state = "resolved"}}

\* where the item is after a handler ran
Where(s2, item) ==
  IF item \in Range(s2.active) THEN "active"
  ELSE IF item \in Range(s2.pool) THEN "pool"
  ELSE "gone"

\* one handler ran from st to s2: released are the items the caller gave
\* back in it; the caller holds what a get returned or a request resolved with
Ran(s2, call, released) ==
  LET StillIdle(x) == x \in Range(s2.pool)
      NewIdle(x) == x \notin Range(st.pool)
      Since(r) == IF s2.handles[r].state # "pending" THEN NULL
                  ELSE IF st.handles[r].state = "pending" THEN st.enqueued[r]
                  ELSE st.now
  IN  /\ st' = [s2 EXCEPT !.enqueued = [r \in Reqs |-> Since(r)]]
      /\ last' = call
      /\ lent' = (lent \ released) \cup (IF s2.ret # 0 THEN {s2.ret} ELSE {}) \cup Resolved(st, s2)
      /\ pooledOrder' = SelectSeq(pooledOrder, StillIdle) \o SelectSeq(s2.pool, NewIdle)
      /\ UNCHANGED <<pr, lm, tl>>

\* the state a handler starts from: no error event emitted, nothing returned
Start == [st EXCEPT !.events = <<>>, !.ret = 0]

\* ---------------------------------------------------------------- actions
\* a caller calls get
Get(ctx, outcomes, dthrow) ==
  /\ getResult(st, ctx) = "queued" => st.nextReq <= st.reqLimit
  /\ LET s2 == get(Start, ctx, outcomes, dthrow)
     IN  Ran(s2, Call("get", s2.ret, getResult(st, ctx), getError(st, ctx)), {})

\* a caller releases an item it holds
Release(item, resetThrows, dthrow) ==
  /\ item \in lent
  /\ LET s2 == release(Start, item, resetThrows, dthrow)
     IN  Ran(s2, Call("release", item,
                      IF resetThrows /\ item \in Range(st.active) THEN "resetThrew" ELSE Where(s2, item),
                      NoError),
             {item})

\* a caller releases an object it does not hold: one the pool never made, or
\* an item it has given back already
ReleaseStray(item, dthrow) ==
  /\ item \notin lent
  /\ item \notin Range(st.active)
  /\ item = Foreign \/ item < st.nextItem
  /\ st.destroying < MaxDestroying
  /\ Ran(release(Start, item, FALSE, dthrow), Call("releaseStray", item, "", NoError), {})

\* a caller calls close; fn = "release" gives every active item back
Close(fn, dthrow) ==
  Ran(close(Start, fn, dthrow), Call("close", 0, closeResult(st), NoError),
      IF fn = "release" /\ ~st.closing THEN Range(st.active) ELSE {})

\* the token of a queued request is cancelled
Cancel(handle) ==
  /\ st.handles[handle].state = "pending"
  /\ st.handles[handle].ctx
  /\ Ran(cancel(Start, handle), Other, {})

\* microtask: the catch callback of a cancelled request
GetCatch(handle) ==
  /\ handle \in st.cleanup
  /\ Ran(getCatch(Start, handle), Other, {})

\* a factory.create call settles; awaited: it is the one #grow awaits
CreateSettled(ok, awaited, dthrow) ==
  /\ st.creating > 0
  /\ IF awaited THEN st.growAwait = "create"
     ELSE st.creating > (IF st.growAwait = "create" THEN 1 ELSE 0)
  /\ ok => st.nextItem <= NItems
  /\ LET s1 == IF ok
               THEN createSucceeded([Start EXCEPT !.nextItem = @ + 1], st.nextItem, dthrow)
               ELSE createFailed(Start, dthrow)
         s2 == IF awaited THEN [s1 EXCEPT !.growAwait = "ready"] ELSE s1
     IN  Ran(s2, IF ok THEN Other ELSE Call("createFailed", 0, "", NoError), {})

\* microtask: #grow continues after "await promise"
GrowResume ==
  /\ st.growAwait = "ready"
  /\ Ran(growEnd([Start EXCEPT !.growAwait = "none"]), Other, {})

\* timer: setTimeout(() => this.#grow(), 0)
GrowTimer(outcomes, dthrow) ==
  /\ st.growTimers > 0
  /\ ~MicrotaskPending(st)
  /\ Ran(grow([Start EXCEPT !.growTimers = @ - 1], outcomes, dthrow),
         Other, {})

\* a factory.destroy call settles
DestroySettled(ok) ==
  /\ st.destroying > 0
  /\ Ran(destroySettled(Start, ok), IF ok THEN Other ELSE Call("destroyFailed", 0, "", NoError), {})

\* timer: the sweep set by #pushSweep is due
SweepTimer(dthrow) ==
  /\ st.sweepTimeout # NULL
  /\ st.sweepTimeout <= st.now
  /\ ~MicrotaskPending(st)
  /\ Ran(sweep(Start, dthrow), Call("sweep", 0, "", NoError), {})

\* a caller calls setOptions({key: value})
SetOptions(key, value, outcomes, dthrow) ==
  LET s2 == setOptions(Start, key, value, outcomes, dthrow)
  IN  Ran(s2, Call("setOptions", 0,
                   IF setOptionsThrows(st, key, value) THEN "throws"
                   ELSE IF Len(s2.pool) < Len(st.pool) THEN "trimmed" ELSE "",
                   NoError), {})

\* a caller calls setOptions with several keys
SetOptionsAll(options, outcomes, dthrow) ==
  LET s2 == setOptionsAll(Start, options, outcomes, dthrow)
  IN  Ran(s2, Call("setOptions", 0,
                   IF st.closed \/ st.closing \/ assignThrows(st, options, outcomes, dthrow) THEN "throws"
                   ELSE IF Len(s2.pool) < Len(st.pool) THEN "trimmed" ELSE "",
                   NoError), {})

\* a millisecond passes
Tick ==
  /\ st.now < MaxTime
  /\ ~MicrotaskPending(st)
  /\ Ran([Start EXCEPT !.now = @ + 1], Other, {})

\* ------------------------------------------- actions on callback promises
RanPromise(pr2, call) ==
  /\ pr' = pr2
  /\ last' = call
  /\ UNCHANGED <<st, lent, pooledOrder, lm, tl>>

\* promise(ctx, errCanceled) is called, or promise() when hasCtx is false
PromiseNew(p, hasCtx, errCanceled) ==
  /\ pr.ps[p].state = "unused"
  /\ RanPromise([pr EXCEPT !.ps[p] = newPromise(pr.token, hasCtx, errCanceled)],
                Call("promise", p, IF hasCtx /\ pr.token.canceled THEN "canceled" ELSE "", NoError))

\* the owner of a promise calls its resolve
PromiseResolve(p, value) ==
  /\ pr.ps[p].state # "unused"
  /\ RanPromise([pr EXCEPT !.ps[p] = cbResolve(@, value)], Call("resolve", p, "", NoError))

\* the owner of a promise calls its reject
PromiseReject(p, kind) ==
  /\ pr.ps[p].state # "unused"
  /\ RanPromise([pr EXCEPT !.ps[p] = cbReject(@, [kind |-> kind, tagged |-> FALSE])],
                Call("reject", p, "", NoError))

\* cancel() or cancel(err) is called on the token
TokenCancel(stored) ==
  /\ ~pr.token.canceled
  /\ RanPromise(tokenCancel(pr, stored), Call("cancel", 0, "", NoError))

\* microtask: runWithCancel leaves its await, the finally block runs
PromiseFinally(p) ==
  /\ pr.ps[p].sub
  /\ pr.ps[p].state \in {"resolved", "rejected"}
  /\ RanPromise([pr EXCEPT !.ps[p] = runWithCancelFinally(@)], Call("finally", p, "", NoError))

\* ------------------------------------------------------- actions on limit
RanLimit(lm2, call) ==
  /\ lm' = lm2
  /\ last' = call
  /\ UNCHANGED <<st, lent, pooledOrder, pr, tl>>

LimitPending(s) == s.stage \in {"finally", "then"}

\* limit(p, ms) is called; a deadline is a number of ms from now as well
LimitMs(ms) ==
  /\ ~lm.called
  /\ RanLimit(limitMs(lm, ms), Call("limit", 0, "ms", NoError))

\* limit(p, ctx) is called
LimitContext(hasCanceler) ==
  /\ ~lm.called
  /\ RanLimit(limitContext(lm, hasCanceler), Call("limit", 0, "ctx", NoError))

\* the owner of p resolves or rejects it
SettleP(ok, v) ==
  /\ lm.p.state = "pending"
  /\ RanLimit(settleP(lm, ok, v), Call("settleP", 0, "", NoError))

\* microtask: the finally callback
LimitFinally ==
  /\ lm.stage = "finally"
  /\ RanLimit(limitFinally(lm), Other)

\* microtask: the then or the catch callback
LimitThen ==
  /\ lm.stage = "then"
  /\ RanLimit(limitThen(lm), Other)

\* timer: setTimeout(clearAndCancel, ms) is due
LimitTimer ==
  /\ lm.timer # NULL /\ lm.timer <= lm.now
  /\ ~LimitPending(lm)
  /\ RanLimit(clearAndCancel(lm), Call("timer", 0, "", NoError))

\* cancel() is called on the token of ctx
LimitCancel ==
  /\ ~lm.canceled
  /\ RanLimit(limitCancel(lm), Call("cancel", 0, "", NoError))

\* a millisecond passes
LimitTick ==
  /\ lm.now < MaxTime
  /\ ~LimitPending(lm)
  /\ RanLimit([lm EXCEPT !.now = @ + 1], Other)

\* ---------------------------------------------------- actions on Timeline
RanTimeline(tl2, call) ==
  /\ tl' = tl2
  /\ last' = call
  /\ UNCHANGED <<st, lent, pooledOrder, pr, lm>>

TlSetTimeout(fn, ticks) ==
  /\ tl.nextId <= NCallbacks
  /\ Bounded(setTimeout(tl, fn, ticks))
  /\ RanTimeline(setTimeout(tl, fn, ticks), Call("setTimeout", tl.nextId, "", NoError))

TlClearTimeout(id) ==
  /\ id < tl.nextId
  /\ RanTimeline(clearTimeout(tl, id), Call("clearTimeout", id, clearTimeoutResult(tl, id), NoError))

\* what start and next do when a call of #run or next has not returned
Entered(t) == IF t.running THEN "throws" ELSE IF InProgress(t) THEN "overlap" ELSE ""

TlStart ==
  /\ Bounded(start(tl))
  /\ RanTimeline(start(tl), Call("start", 0, Entered(tl), NoError))

TlNext ==
  /\ Bounded(next(tl))
  /\ RanTimeline(next(tl), Call("next", 0, Entered(tl), NoError))

TlReset ==
  /\ Bounded(reset(tl))
  /\ RanTimeline(reset(tl), Call("reset", 0, IF reset(tl).waitReset THEN "pending" ELSE "resolved", NoError))

TlDrain ==
  /\ Bounded(drain(tl))
  /\ RanTimeline(drain(tl), Call("drain", 0, IF drain(tl).waitDrain THEN "pending" ELSE "resolved", NoError))

\* the promise a callback returned is settled
TlSettle(id) ==
  /\ tl.result[id] = "pending"
  /\ RanTimeline(settle(tl, id), Call("settle", id, "", NoError))

\* the first microtask of the queue runs
TlMicrotask ==
  /\ tl.mq # <<>>
  /\ Bounded(resume([tl EXCEPT !.mq = Tail(@)], Head(tl.mq)))
  /\ RanTimeline(resume([tl EXCEPT !.mq = Tail(@)], Head(tl.mq)), Other)

\* a platform timer set by #run is due: no microtask is left then
TlTimer ==
  /\ tl.timers > 0
  /\ tl.mq = <<>>
  /\ Bounded(run([tl EXCEPT !.timers = @ - 1]))
  /\ RanTimeline(run([tl EXCEPT !.timers = @ - 1]), Call("timer", 0, "", NoError))

\* ---------------------------------------------------------- specifications
InitWith(opts, reqLimit) ==
  /\ st = NewPool(opts, reqLimit)
  /\ lent = {}
  /\ pooledOrder = <<>>
  /\ last = NoCall
  /\ pr = NoPromises
  /\ lm = NoLimit
  /\ tl = NewTimeline(FALSE)

\* the pool with a factory that never fails, and no lifetime limits
Init ==
  \E moc \in {-1, 1}, par \in BOOLEAN :
    InitWith([DefaultOptions EXCEPT !.maxOpenCount = moc, !.parallelCreate = par], MaxReq)

Next ==
  \/ \E ctx \in {"none", "live", "canceled"} : Get(ctx, AllAsync, FALSE)
  \/ \E item \in Items : Release(item, FALSE, FALSE)
  \/ \E fn \in {"none", "release", "hold"} : Close(fn, FALSE)
  \/ \E r \in Reqs : Cancel(r)
  \/ \E r \in Reqs : GetCatch(r)
  \/ \E awaited \in BOOLEAN : CreateSettled(TRUE, awaited, FALSE)
  \/ GrowResume
  \/ DestroySettled(TRUE)

Spec == Init /\ [][Next]_vars

\* the pool with default options, requests with tokens, and one request more
InitQueue == InitWith(DefaultOptions, MaxReq + 1)

NextQueue ==
  \/ Get("live", AllAsync, FALSE)
  \/ \E item \in Items : Release(item, FALSE, FALSE)
  \/ \E r \in Reqs : Cancel(r)
  \/ \E r \in Reqs : GetCatch(r)
  \/ CreateSettled(TRUE, FALSE, FALSE)

SpecQueue == InitQueue /\ [][NextQueue]_vars

\* the pool with a factory whose create, destroy and reset can fail
InitFail ==
  \E par \in BOOLEAN : InitWith([DefaultOptions EXCEPT !.parallelCreate = par], MaxReq)

NextFail ==
  \/ \E o \in AnyOutcome : Get("none", o, FALSE)
  \/ \E item \in Items, resetThrows \in BOOLEAN, dthrow \in BOOLEAN :
       Release(item, resetThrows, dthrow)
  \/ \E dthrow \in BOOLEAN : Close("none", dthrow)
  \/ \E ok \in BOOLEAN, awaited \in BOOLEAN, dthrow \in BOOLEAN : CreateSettled(ok, awaited, dthrow)
  \/ GrowResume
  \/ \E o \in AnyOutcome : GrowTimer(o, FALSE)
  \/ \E ok \in BOOLEAN : DestroySettled(ok)

SpecFail == InitFail /\ [][NextFail]_vars

\* the pool with a lifetime limit, a clock and options that change
InitTime ==
  \E life \in {-1, 1} : InitWith([DefaultOptions EXCEPT !.maxLifetime = life], MaxReq)

NextTime ==
  \/ Get("live", AllAsync, FALSE)
  \/ \E item \in Items, resetThrows \in BOOLEAN : Release(item, resetThrows, FALSE)
  \/ Close("none", FALSE)
  \/ \E r \in Reqs : Cancel(r)
  \/ \E r \in Reqs : GetCatch(r)
  \/ CreateSettled(TRUE, FALSE, FALSE)
  \/ DestroySettled(TRUE)
  \/ SweepTimer(FALSE)
  \/ Tick
  \/ \E v \in {-1, 1} : SetOptions("maxOpenCount", v, AllAsync, FALSE)

SpecTime == InitTime /\ [][NextTime]_vars

\* the pool whose options are changed while items are idle or in use
OptionValues == {-1, 0, 1}

\* the option objects with two keys that setOptions is called with
TwoOptions ==
  {<<<<k1, v1>>, <<k2, v2>>>> :
     k1 \in {"maxIdleCount"}, v1 \in {1}, k2 \in {"maxLifetime", "maxOpenCount"}, v2 \in {0}}

InitOpts ==
  \E idle \in {-1, 0, 1} : InitWith([DefaultOptions EXCEPT !.maxIdleCount = idle], MaxReq)

NextOpts ==
  \/ Get("none", AllAsync, FALSE)
  \/ \E item \in Items : Release(item, FALSE, FALSE)
  \/ CreateSettled(TRUE, FALSE, FALSE)
  \/ DestroySettled(TRUE)
  \/ \E key \in {"maxOpenCount", "maxIdleCount"}, v \in OptionValues :
       SetOptions(key, v, AllAsync, FALSE)
  \/ \E options \in TwoOptions : SetOptionsAll(options, AllAsync, FALSE)

SpecOpts == InitOpts /\ [][NextOpts]_vars

\* the pool whose items age while they are idle and whose time limits change
InitSweep ==
  \E life \in {-1, 1}, idle \in {-1, 1} :
    InitWith([DefaultOptions EXCEPT !.maxLifetime = life, !.maxIdleTime = idle], MaxReq)

NextSweep ==
  \/ Get("none", AllAsync, FALSE)
  \/ \E item \in Items : Release(item, FALSE, FALSE)
  \/ CreateSettled(TRUE, FALSE, FALSE)
  \/ DestroySettled(TRUE)
  \/ SweepTimer(FALSE)
  \/ Tick
  \/ \E key \in {"maxLifetime", "maxIdleTime"}, v \in {-1, 1} : SetOptions(key, v, AllAsync, FALSE)

SpecSweep == InitSweep /\ [][NextSweep]_vars

\* the pool whose callers also release objects they do not hold
InitStray == InitWith(DefaultOptions, MaxReq)

NextStray ==
  \/ Get("none", AllAsync, FALSE)
  \/ \E item \in Items : Release(item, FALSE, FALSE)
  \/ \E item \in Items \cup {Foreign}, dthrow \in BOOLEAN : ReleaseStray(item, dthrow)
  \/ Close("none", FALSE)
  \/ CreateSettled(TRUE, FALSE, FALSE)
  \/ DestroySettled(TRUE)

SpecStray == InitStray /\ [][NextStray]_vars

\* callback promises made on one token, resolved, rejected and cancelled
InitPromise == InitWith(DefaultOptions, MaxReq)

NextPromise ==
  \/ \E p \in Promises, hasCtx \in BOOLEAN, errCanceled \in {"none", "custom"} :
       PromiseNew(p, hasCtx, errCanceled)
  \/ \E p \in Promises, value \in {1, 2} : PromiseResolve(p, value)
  \/ \E p \in Promises, kind \in {"failed", "failed again"} : PromiseReject(p, kind)
  \/ \E stored \in {"none", "stored"} : TokenCancel(stored)
  \/ \E p \in Promises : PromiseFinally(p)

SpecPromise == InitPromise /\ [][NextPromise]_vars

\* one call of limit with a promise that settles before, with or after it
InitLimit == InitWith(DefaultOptions, MaxReq)

NextLimit ==
  \/ \E ms \in 0..MaxTime : LimitMs(ms)
  \/ \E hasCanceler \in BOOLEAN : LimitContext(hasCanceler)
  \/ \E ok \in BOOLEAN, v \in {1, 2} : SettleP(ok, v)
  \/ LimitFinally
  \/ LimitThen
  \/ LimitTimer
  \/ LimitCancel
  \/ LimitTick

SpecLimit == InitLimit /\ [][NextLimit]_vars

\* the ticks ahead a caller schedules a callback
Ahead == 0..1

\* a timeline without tickMs; its callbacks return promises
InitTimeline == InitWith(DefaultOptions, MaxReq)

NextTimeline ==
  \/ \E fn \in {Fn("sync", 0), Fn("async", 0)}, ticks \in Ahead : TlSetTimeout(fn, ticks)
  \/ TlStart
  \/ TlNext
  \/ \E id \in Ids : TlSettle(id)
  \/ TlMicrotask

SpecTimeline == InitTimeline /\ [][NextTimeline]_vars

\* a timeline without tickMs; its callbacks schedule callbacks
InitChain == InitWith(DefaultOptions, MaxReq)

NextChain ==
  \/ \E fn \in {Fn("sync", 0), Fn("sched", 0), Fn("sched", 1)}, ticks \in Ahead :
       TlSetTimeout(fn, ticks)
  \/ TlStart
  \/ TlNext
  \/ TlReset
  \/ TlMicrotask

SpecChain == InitChain /\ [][NextChain]_vars

\* a timeline without tickMs; callers and callbacks clear callbacks
InitClear == InitWith(DefaultOptions, MaxReq)

NextClear ==
  \/ \E fn \in {Fn("sync", 0)} \cup {Fn("clear", i) : i \in Ids}, ticks \in Ahead :
       TlSetTimeout(fn, ticks)
  \/ \E id \in Ids : TlClearTimeout(id)
  \/ TlStart
  \/ TlNext
  \/ TlDrain
  \/ TlMicrotask

SpecClear == InitClear /\ [][NextClear]_vars

\* a timeline, with tickMs or without; callers and callbacks reset it
InitReset ==
  /\ st = NewPool(DefaultOptions, MaxReq)
  /\ lent = {}
  /\ pooledOrder = <<>>
  /\ last = NoCall
  /\ pr = NoPromises
  /\ lm = NoLimit
  /\ tl \in {NewTimeline(FALSE), NewTimeline(TRUE)}

NextReset ==
  \/ \E fn \in {Fn("sync", 0), Fn("reset", 0)}, ticks \in Ahead : TlSetTimeout(fn, ticks)
  \/ TlStart
  \/ TlNext
  \/ TlReset
  \/ TlMicrotask
  \/ TlTimer

SpecReset == InitReset /\ [][NextReset]_vars

\* ------------------------------------------------------------- properties
Canceled(h) == h.state = "rejected" /\ isCanceled(h.err)

\* requests that are in the wait queue and still pending
Waiting(s) == {r \in Range(s.queue) : s.handles[r].state = "pending"}

\* nothing is in flight and nothing is scheduled
Quiet(s) ==
  /\ s.creating = 0 /\ s.destroying = 0
  /\ s.growTimers = 0 /\ s.growAwait = "none" /\ ~s.growing
  /\ s.cleanup = {}

\* C1: queued requests are resolved in the order they were queued: when a
\* request has been resolved, every request queued before it that was neither
\* cancelled nor rejected by close has been resolved as well
C1_FifoOrder ==
  \A a, b \in Reqs :
    (a < b /\ st.handles[b].state = "resolved" /\ st.handles[a].state # "rejected")
      => st.handles[a].state = "resolved"

\* C2: with maxOpenCount = N > 0 never changed, callers never hold more than
\* N items at once
C2_BorrowedWithinMax ==
  st.maxOpenCount > 0 => Cardinality(lent) <= st.maxOpenCount

\* C3: the pool is not closed and the close promise not resolved while a
\* caller still holds an item or a factory.destroy call is in flight
C3_CloseWaitsForItems ==
  (st.closed \/ st.closeResolved) => (lent = {} /\ st.destroying = 0)

\* C4: once close was called, every item was released and every create and
\* destroy call has settled, the pool is closed
C4_CloseCompletes ==
  (st.closing /\ lent = {} /\ Quiet(st)) => st.closed

\* C5: a request whose token was cancelled never wins an item: no element is
\* in active on behalf of a cancelled handle
C5_CanceledNeverWins ==
  \A el \in Range(st.active) :
    st.wonBy[el] # 0 => ~Canceled(st.handles[st.wonBy[el]])

\* C6: after 10 consecutive failed create calls no request is left pending
\* and, once everything in flight has settled, the pool is closed
C6_TenStrikes ==
  (st.createFailures >= MAX_CREATE_FAILURES /\ lent = {} /\ Quiet(st))
    => (st.closed /\ \A r \in Reqs : st.handles[r].state # "pending")

\* C7: after a failed create, with the pool open, fewer than 10 failures in a
\* row, a request waiting and capacity left, a retry is under way: a create
\* is in flight or a grow pass is running or scheduled
C7_RetryAfterFailure ==
  ( /\ ~st.closing
    /\ st.createFailures > 0 /\ st.createFailures < MAX_CREATE_FAILURES
    /\ Waiting(st) # {}
    /\ (st.maxOpenCount <= 0 \/ Len(st.active) < st.maxOpenCount) )
    => (st.creating > 0 \/ st.growing \/ st.growTimers > 0 \/ st.growAwait # "none")

\* C8: idle items are reused last-in first-out: the idle stack holds the
\* items in the order they were pooled, and a get that takes an idle item
\* returns the one pooled last and leaves the earlier ones in their order
C8_LifoReuse ==
  [][ /\ st.pool = pooledOrder
      /\ (last'.op = "get" /\ last'.res = "resolved")
           => /\ last'.item = pooledOrder[Len(pooledOrder)]
              /\ st'.pool = Front(pooledOrder) ]_vars

\* C8 witness: a get returned the later of two items that were idle
C8_Witness ==
  last.op = "get" /\ last.res = "resolved" /\ Len(st.pool) >= 1 /\ last.item \in lent

\* the case of C9: the released item is active, a request is queued, the item
\* is not expired, not excess, and the pool is not closing
HandoffCase(item) ==
  /\ item \in Range(st.active)
  /\ Len(st.queue) > 0
  /\ ~isExpired(st, item)
  /\ ~(st.maxOpenCount > 0 /\ (Len(st.active) - 1) + Len(st.pool) >= st.maxOpenCount)
  /\ ~st.closing

\* the effect C9 states: idle stack unchanged, item active, one waiter fewer
HandedOver(item) ==
  /\ st'.pool = st.pool
  /\ item \in Range(st'.active)
  /\ Len(st'.queue) = Len(st.queue) - 1

\* C9 as stated: every release in the handoff case hands the item over
C9_Original ==
  [][ (last'.op = "release" /\ HandoffCase(last'.item)) => HandedOver(last'.item) ]_vars

\* C9 amended: a release in the handoff case during which factory.reset does
\* not throw hands the item over: the idle stack is unchanged, the item is
\* active again, the oldest handle has left the queue and no other has, and
\* that handle, if it was pending, is resolved with the item
C9_ReleaseHandoff ==
  [][ (last'.op = "release" /\ last'.res # "resetThrew" /\ HandoffCase(last'.item))
        => /\ HandedOver(last'.item)
           /\ st'.queue = Tail(st.queue)
           /\ st.handles[Head(st.queue)].state = "pending"
                => /\ st'.handles[Head(st.queue)].state = "resolved"
                   /\ st'.handles[Head(st.queue)].item = last'.item ]_vars

\* C9 witness: a release handed its item to a request that was waiting
C9_Witness ==
  /\ last.op = "release" /\ last.res = "active"
  /\ st.wonBy[last.item] # 0
  /\ st.handles[st.wonBy[last.item]].state = "resolved"
  /\ st.handles[st.wonBy[last.item]].item = last.item

\* C10: get with a token that is already cancelled rejects with a Canceled
\* error that isCanceled recognises, and changes neither the wait queue nor
\* the number of creates in flight
C10_GetAlreadyCanceled ==
  [][ (last'.op = "get" /\ last'.res = "rejected")
        => /\ last'.err.kind = "Canceled"
           /\ isCanceled(last'.err)
           /\ st'.queue = st.queue
           /\ st'.creating = st.creating ]_vars

\* the pool's state that callers can observe or that later calls depend on:
\* everything but the record of what the current handler emitted and returned
Observable(s) == [s EXCEPT !.events = <<>>, !.ret = 0]

\* C11: a setOptions call that throws for a disallowed value 0 mutates
\* nothing: the option values and all other pool state are as before the call
C11_FailedSetOptionsMutatesNothing ==
  [][ (last'.op = "setOptions" /\ last'.res = "throws") => Observable(st') = Observable(st) ]_vars

\* C12: whenever maxIdleCount is >= 0, 0 included, the idle stack holds at
\* most maxIdleCount elements
C12_IdleWithinMaxIdleCount ==
  st.maxIdleCount >= 0 => Len(st.pool) <= st.maxIdleCount

\* C13: a close call made while the pool is closing returns the promise of
\* the first call and runs no shutdown step again, a close call made after
\* the pool is closed returns a resolved promise and changes nothing, and
\* close makes one promise at most
C13_CloseIdempotent ==
  [][ last'.op = "close"
        => /\ (st.closing /\ ~st.closed)
                => /\ last'.res = "waitClose"
                   /\ st.waitClose = "pending"
                   /\ Observable(st') = Observable(st)
           /\ st.closed
                => /\ last'.res = "resolved"
                   /\ Observable(st') = Observable(st)
           /\ st'.closeMade = 1 ]_vars

\* C13 witness: close was called again while the pool was closing
C13_Witness ==
  last.op = "close" /\ last.res = "waitClose" /\ st.closing /\ ~st.closed /\ st.closeMade = 1

\* C14: once close was called no request is pending: every request that was
\* queued before is rejected (with Closing, unless it was cancelled before)
\* and the wait queue is empty
C14_CloseRejectsWaiters ==
  st.closing
    => /\ st.queue = <<>>
       /\ \A r \in Reqs : st.handles[r].state # "pending"

\* C15: get on a closing pool fails with Closing and get on a closed pool
\* fails with Closed; no request is queued, no idle element is taken and no
\* create is started
C15_GetWhileClosing ==
  [][ (last'.op = "get" /\ st.closing)
        => /\ last'.err.kind = (IF st.closed THEN "Closed" ELSE "Closing")
           /\ last'.res \in {"throwClosed", "throwClosing"}
           /\ last'.item = 0
           /\ st'.queue = st.queue
           /\ st'.handles = st.handles
           /\ st'.pool = st.pool
           /\ st'.creating = st.creating
           /\ lent' = lent ]_vars

\* C15 witness: get was called on a pool that is closing and not yet closed
C15_Witness ==
  last.op = "get" /\ last.err.kind = "Closing" /\ st.closing /\ ~st.closed

\* the idle elements that are expired under the current options
LifetimeExpired(s) ==
  {el \in Range(s.pool) : s.maxLifetime > 0 /\ sinceMs(s, s.created[el]) > s.maxLifetime}

IdleTimeExpired(s) ==
  {el \in Range(s.pool) : s.maxIdleTime > 0 /\ sinceMs(s, s.idled[el]) > s.maxIdleTime}

\* C16: when an idle element is expired, by ageing or by a change of the
\* limits, the sweep timer is set and due, so that the sweep runs without any
\* further call; the sweep removes every expired idle element, destroys it
\* and counts it once, under maxLifetimeClosed if its lifetime is exceeded and
\* under maxIdleTimeClosed otherwise, and keeps the other idle elements
C16_SweepExpired ==
  [][ /\ (LifetimeExpired(st') \cup IdleTimeExpired(st')) # {}
           => (st'.sweepTimeout # NULL /\ st'.sweepTimeout <= st'.now)
      /\ last'.op = "sweep"
           => /\ st'.pool = SelectSeq(st.pool, LAMBDA el : el \notin LifetimeExpired(st) \cup IdleTimeExpired(st))
              /\ (LifetimeExpired(st) \cup IdleTimeExpired(st)) \subseteq st'.destroyed
              /\ st'.maxLifetimeClosed = st.maxLifetimeClosed + Cardinality(LifetimeExpired(st))
              /\ st'.maxIdleTimeClosed
                   = st.maxIdleTimeClosed + Cardinality(IdleTimeExpired(st) \ LifetimeExpired(st)) ]_vars

\* C16 witness: a sweep has run and an element that was idle has left the idle
\* stack without being handed out
C16_Witness ==
  /\ last.op = "sweep"
  /\ \E el \in st.destroyed : el \notin Range(st.pool) /\ st.idled[el] # NULL
  /\ st.maxLifetimeClosed + st.maxIdleTimeClosed > 0

\* the effect of trimming k idle elements: the k that were pooled first are
\* gone from the idle stack and passed to factory.destroy, the later ones
\* stay in their order, maxIdleClosed grows by k, active is untouched
Trimmed(k) ==
  /\ st'.pool = SubSeq(st.pool, k + 1, Len(st.pool))
  /\ \A i \in 1..k : st.pool[i] \in st'.destroyed
  /\ st'.destroying = st.destroying + k
  /\ st'.maxIdleClosed = st.maxIdleClosed + k
  /\ st'.active = st.active

\* C17: a setOptions call that lowers only maxOpenCount, or only
\* maxIdleCount, to a positive value below the current count retires idle
\* elements from the oldest end until |active| + |idle| <= maxOpenCount
\* (|idle| <= maxIdleCount) or the idle stack is empty
C17_TrimOldestIdle ==
  [][ (last'.op = "setOptions" /\ last'.res # "throws"
         /\ st'.maxLifetime = st.maxLifetime /\ st'.maxIdleTime = st.maxIdleTime)
        => /\ ( /\ st'.maxOpenCount # st.maxOpenCount /\ st'.maxIdleCount = st.maxIdleCount
                /\ st'.maxOpenCount > 0
                /\ Len(st.active) + Len(st.pool) > st'.maxOpenCount )
                => Trimmed(Min(Len(st.pool), Len(st.active) + Len(st.pool) - st'.maxOpenCount))
           /\ ( /\ st'.maxIdleCount # st.maxIdleCount /\ st'.maxOpenCount = st.maxOpenCount
                /\ st'.maxIdleCount > 0
                /\ Len(st.pool) > st'.maxIdleCount )
                => Trimmed(Len(st.pool) - st'.maxIdleCount) ]_vars

\* C17 witness: setOptions has retired the older of two idle items and kept
\* the newer one
C17_Witness ==
  /\ last.op = "setOptions" /\ last.res = "trimmed"
  /\ Len(st.pool) = 1 /\ st.destroying = 1 /\ st.maxIdleClosed = 1
  /\ \E el \in st.destroyed : el \notin Range(st.pool) /\ el \notin lent

\* the number of error events with the given action that the handler emitted
Emitted(s, action) == Cardinality({i \in DOMAIN s.events : s.events[i] = action})

\* C18: when factory.reset throws during release the item is passed to
\* factory.destroy, is neither pooled nor handed to a request, maxIdleCount is
\* unchanged and exactly one error event with action 'reset' is emitted
C18_ResetFailure ==
  [][ (last'.op = "release" /\ last'.res = "resetThrew")
        => /\ last'.item \in st'.destroyed
           /\ st'.destroying = st.destroying + 1 \/ Emitted(st', "destroy") > 0
           /\ last'.item \notin Range(st'.pool) /\ st'.pool = st.pool
           /\ last'.item \notin Range(st'.active)
           /\ st'.queue = st.queue /\ st'.handles = st.handles
           /\ st'.maxIdleCount = st.maxIdleCount
           /\ Emitted(st', "reset") = 1 ]_vars

\* C18 witness: a release during which factory.reset threw, while a request
\* was waiting
C18_Witness ==
  /\ last.op = "release" /\ last.res = "resetThrew"
  /\ Emitted(st, "reset") = 1
  /\ last.item \in st.destroyed
  /\ Waiting(st) # {}

\* C19: a factory.create promise that rejects, a factory.destroy promise
\* that rejects and a factory.reset that throws are each emitted as exactly
\* one error event with the matching action; a request is only ever rejected
\* with Canceled, Closing or Closed, and release returns without an error
C19_FactoryErrorsEmitted ==
  [][ /\ last'.op = "createFailed"
           => (Emitted(st', "create") = 1 /\ Emitted(st', "reset") = 0)
      /\ last'.op = "destroyFailed" => st'.events = <<"destroy">>
      /\ last'.op = "release"
           => /\ Emitted(st', "reset") = (IF last'.res = "resetThrew" THEN 1 ELSE 0)
              /\ Emitted(st', "create") = 0
              /\ last'.err = NoError
      /\ \A r \in Reqs :
           st'.handles[r].state = "rejected"
             => st'.handles[r].err.kind \in {"Canceled", "Closing", "Closed"} ]_vars

\* C19 witness: a create promise rejected while a request was waiting; the
\* error was emitted and the request is still pending
C19_Witness ==
  /\ last.op = "createFailed"
  /\ Emitted(st, "create") = 1
  /\ \E r \in Reqs : st.handles[r].state = "pending"

\* C20: release of an object that has no pool element, or whose element is
\* not in active, passes it to factory.destroy and leaves the idle stack,
\* active, the wait queue and every request as they were
C20_ReleaseUnrecognized ==
  [][ (last'.op \in {"release", "releaseStray"} /\ last'.item \notin Range(st.active))
        => /\ last'.item \in st'.destroyed
           /\ st'.destroying = st.destroying + 1 \/ Emitted(st', "destroy") = 1
           /\ st'.pool = st.pool
           /\ st'.active = st.active
           /\ st'.queue = st.queue
           /\ st'.handles = st.handles
           /\ st'.wonBy = st.wonBy ]_vars

\* C20 witness: an object the pool never made was released while an item
\* was idle and another was in use
C20_Witness ==
  /\ last.op = "releaseStray" /\ last.item = Foreign
  /\ Foreign \in st.destroyed
  /\ Len(st.pool) > 0 /\ Len(st.active) > 0

\* the requests that a handler resolved with an item
ResolvedNow == {r \in Reqs : st.handles[r].state = "pending" /\ st'.handles[r].state = "resolved"}

RECURSIVE WaitedSum(_)
WaitedSum(rs) ==
  IF rs = {} THEN 0
  ELSE LET r == CHOOSE q \in rs : TRUE
       IN  (st.now - st.enqueued[r]) + WaitedSum(rs \ {r})

\* C21: waitDuration is the cumulative time that fulfilled requests spent in
\* the wait queue: a handler that resolves queued requests adds the time
\* since each of them was enqueued, and no other handler changes it
C21_WaitDuration ==
  [][ st'.waitDuration = st.waitDuration + WaitedSum(ResolvedNow) ]_vars

\* C22: a callback promise settles at most once: once it is resolved or
\* rejected (by its owner or by the cancellation of the token), no resolve,
\* reject or cancellation changes its state, its value or its reason
C22_SettlesOnce ==
  [][ \A p \in Promises :
        pr.ps[p].state \in {"resolved", "rejected"}
          => /\ pr'.ps[p].state = pr.ps[p].state
             /\ pr'.ps[p].value = pr.ps[p].value
             /\ pr'.ps[p].err = pr.ps[p].err ]_vars

\* C22 witness: resolve was called on a promise that the cancellation of
\* the token had rejected
C22_Witness ==
  /\ last.op = "resolve"
  /\ pr.ps[last.item].state = "rejected"
  /\ isCanceled(pr.ps[last.item].err)

\* C23: promise(ctx, errFactory) on a token that is already cancelled is
\* rejected at once with errFactory() if a factory is supplied, else with the
\* error stored in the token, else with the generic error, and the reason is
\* tagged as a cancellation
C23_AlreadyCanceledReason ==
  [][ (last'.op = "promise" /\ last'.res = "canceled")
        => LET h == pr'.ps[last'.item]
           IN  /\ h.state = "rejected"
               /\ isCanceled(h.err)
               /\ h.err.kind = (IF h.errCanceled = "custom" THEN "custom"
                                ELSE IF pr.token.err # "none" THEN pr.token.err
                                ELSE "Context was already canceled") ]_vars

\* the result limit is settled with
SameOutcome(a, b) == a.state = b.state /\ a.value = b.value /\ a.err = b.err

\* C24: limit settles with the value or the reason of p when p settled
\* before the bound fired, and with the timeout error when the bound fired
\* first
C24_LimitFirstWins ==
  lm.out.state # "pending"
    => IF lm.first = "p" THEN SameOutcome(lm.out, lm.p)
       ELSE lm.out.state = "rejected" /\ lm.out.err = timeoutError

\* C25: a callback scheduled with setTimeout(fn, k) while the tick is t is
\* called while the tick is t + k, also when it was scheduled by a callback
C25_ExactTick ==
  \A i \in Ids : tl.ran[i] # NULL => tl.ran[i] = tl.info[i].tick

\* C26: no callback of a tick is started while a promise returned by a
\* callback of an earlier tick is pending
C26_AwaitsTick == tl.early = {}

\* C27: clearTimeout(id) returns true exactly when callback id is scheduled
\* and was not called; it is never called afterwards and no other callback
\* is removed
C27_ClearTimeout ==
  /\ tl.misreported = {}
  /\ tl.lost = {}
  /\ \A i \in tl.cleared : tl.ran[i] = NULL

\* C28: after a reset has completed no callback that was pending is called,
\* and until start or next is called the tick is 0 and running is false
C28_Reset ==
  /\ \A i \in tl.stale : tl.ran[i] = NULL
  /\ tl.fresh => tl.tick = 0 /\ ~tl.running

\* the timeline has nothing left to do by itself
AtRest(t) == t.mq = <<>> /\ t.blocked = {} /\ t.timers = 0

\* C29: with the timeline at rest, drained is true exactly when no callback
\* is scheduled, and no drain() promise is left pending then
C29_Drained ==
  AtRest(tl) =>
    /\ tl.drained <=> Pending(tl) = {}
    /\ tl.waitDrain => Pending(tl) # {}

\* C30: while a call of #run or of next has not returned, running is true,
\* and start and next throw
C30_OneTick ==
  /\ InProgress(tl) => tl.running
  /\ last.res # "overlap"

\* the items the factory created that were not passed to factory.destroy
Alive(s) == {i \in Items : i < s.nextItem /\ i \notin s.destroyed}

\* C31: every item created and not passed to factory.destroy is in exactly
\* one of the idle stack and the active list, and its idled time is unset
\* exactly when it is in the active list
C31_IdleOrActive ==
  \A i \in Alive(st) :
    /\ (i \in Range(st.pool)) # (i \in Range(st.active))
    /\ (st.idled[i] = NULL) <=> (i \in Range(st.active))

\* C32: while a request waits in the queue and the pool is not closing, a
\* create is in flight, or a grow pass is running or about to run, or
\* maxOpenCount has been reached
C32_WaitersAreWorkedFor ==
  (Waiting(st) # {} /\ ~st.closing)
    => \/ st.creating > 0
       \/ st.growing \/ st.growAwait # "none" \/ st.growTimers > 0
       \/ st.maxOpenCount > 0 /\ Len(st.active) >= st.maxOpenCount

\* C33: when the pool is closed it is closing as well, the idle stack, the
\* wait queue and the active list are empty, and no create and no destroy
\* is in flight
C33_ClosedIsEmpty ==
  st.closed =>
    /\ st.closing
    /\ st.pool = <<>> /\ st.queue = <<>> /\ st.active = <<>>
    /\ st.creating = 0 /\ st.destroying = 0

\* the open elements the pool counts against maxOpenCount are within it
OpenWithinMax(s) ==
  s.maxOpenCount > 0 => Len(s.active) + s.creating <= s.maxOpenCount

\* C34: with maxOpenCount set, the active items and the creates in flight
\* together never exceed it
C34_OpenWithinMax == OpenWithinMax(st)

\* C34, amended: a step that leaves maxOpenCount as it was keeps the active
\* items and the creates in flight within it; only a change of maxOpenCount
\* can leave more of them than the new limit allows
C34_StepsKeepMax ==
  [][(OpenWithinMax(st) /\ st'.maxOpenCount = st.maxOpenCount) => OpenWithinMax(st')]_vars

\* the limit set by setOptions is reached and holds back the create of a
\* waiting request
C34_Witness ==
  /\ st.maxOpenCount > 0
  /\ Len(st.active) + st.creating = st.maxOpenCount
  /\ Cardinality(Waiting(st)) > st.creating

\* the items the factory made for which #created registered no element
Unregistered(s) == {i \in Items : i < s.nextItem /\ s.created[i] = NULL}

\* C35: an item whose create completes once close was called is passed to
\* factory.destroy in the same step and gets no element; such an item is in
\* neither list, lent to no caller and handed to no request; the close
\* promise is resolved only in a step that leaves no create and no destroy
\* in flight, and no create is in flight once it is resolved
C35_LateItemDestroyed ==
  /\ [][(st.closing /\ st'.nextItem > st.nextItem)
          => /\ st.nextItem \in st'.destroyed
             /\ st.nextItem \in Unregistered(st')
             /\ ~st.closeResolved]_vars
  /\ [](\A i \in Unregistered(st) :
          /\ i \in st.destroyed
          /\ i \notin Range(st.pool) /\ i \notin Range(st.active)
          /\ i \notin lent /\ st.wonBy[i] = 0)
  /\ [][(~st.closeResolved /\ st'.closeResolved)
          => st'.creating = 0 /\ st'.destroying = 0]_vars
  /\ [](st.closeResolved => st.creating = 0)

\* close has resolved after an item that was created during the close was
\* destroyed
C35_Witness ==
  /\ st.closeResolved
  /\ Unregistered(st) # {}
  /\ st.destroying = 0

\* ------------------------------------------------- sequential creation
\* a pool with parallelCreate false that is never changed; the event loop
\* runs every microtask and every timer, and every factory.create settles
InitSeq ==
  \E moc \in {-1, 1} :
    InitWith([DefaultOptions EXCEPT !.maxOpenCount = moc, !.parallelCreate = FALSE], MaxReq)

NextSeq ==
  \/ Get("none", AllAsync, FALSE)
  \/ \E item \in Items : Release(item, FALSE, FALSE)
  \/ CreateSettled(TRUE, TRUE, FALSE)
  \/ GrowResume
  \/ GrowTimer(AllAsync, FALSE)
  \/ DestroySettled(TRUE)
  \/ \E v \in {-1, 0, 1, 2} : SetOptions("maxOpenCount", v, AllAsync, FALSE)

SpecSeq ==
  /\ InitSeq /\ [][NextSeq]_vars
  /\ WF_vars(CreateSettled(TRUE, TRUE, FALSE))
  /\ WF_vars(GrowResume)
  /\ WF_vars(GrowTimer(AllAsync, FALSE))
  /\ WF_vars(DestroySettled(TRUE))

\* maxOpenCount is set and as many items are active
LimitReached(s) == s.maxOpenCount > 0 /\ Len(s.active) >= s.maxOpenCount

\* C36: with parallelCreate false at most one create is in flight, and a
\* waiting request is served, or the limit of open items is reached, or the
\* factory has made every item it can make
C36_OneAtATime ==
  /\ [](st.creating <= 1)
  /\ \A r \in Reqs :
       (r \in Waiting(st)) ~> (r \notin Waiting(st) \/ LimitReached(st) \/ st.nextItem > NItems)

\* C37: the idle stack and the wait queue are never both non-empty
C37_IdleXorWaiting == st.pool = <<>> \/ st.queue = <<>>

\* a request is queued while an element that was idle before is lent out
C37_Witness ==
  /\ st.queue # <<>>
  /\ st.pool = <<>>
  /\ \E i \in lent : st.idled[i] = NULL /\ i \notin Range(st.active)

\* C38: an item that was passed to factory.destroy is in neither list, and
\* get does not return it
C38_DestroyedIsGone ==
  /\ st.destroyed \cap (Range(st.pool) \cup Range(st.active)) = {}
  /\ (last.op = "get" /\ last.res = "resolved") => last.item \notin st.destroyed

\* C39: the catch callback of a cancelled request takes that request's
\* handle, and no other, out of the wait queue; the other handles keep
\* their order
C39_CancelRemovesOnlyItself ==
  [][\A h \in Reqs :
       (h \in st.cleanup /\ h \notin st'.cleanup)
         => st'.queue = SelectSeq(st.queue, LAMBDA x : x # h)]_vars

\* ------------------------------------------------ replacement of an item
\* a pool with room for one open item whose callers release items that
\* factory.reset may reject; the event loop runs every microtask and every
\* timer, and every factory.create and factory.destroy settles
InitReplace ==
  \E par \in BOOLEAN :
    InitWith([DefaultOptions EXCEPT !.maxOpenCount = 1, !.parallelCreate = par], MaxReq)

NextReplace ==
  \/ Get("none", AllAsync, FALSE)
  \/ \E item \in Items, resetThrows \in BOOLEAN : Release(item, resetThrows, FALSE)
  \/ \E awaited \in BOOLEAN : CreateSettled(TRUE, awaited, FALSE)
  \/ GrowResume
  \/ GrowTimer(AllAsync, FALSE)
  \/ DestroySettled(TRUE)

SpecReplace ==
  /\ InitReplace /\ [][NextReplace]_vars
  /\ \A awaited \in BOOLEAN : WF_vars(CreateSettled(TRUE, awaited, FALSE))
  /\ WF_vars(GrowResume)
  /\ WF_vars(GrowTimer(AllAsync, FALSE))
  /\ WF_vars(DestroySettled(TRUE))

\* C40: when release destroyed the item while a request waits, the pool is
\* open, the limit is not reached and the factory can make another item, a
\* create is started or the waiting requests are served
C40_ReplacementCreate ==
  (/\ last.op = "release" /\ last.res \in {"resetThrew", "gone"}
   /\ Waiting(st) # {}
   /\ ~st.closing /\ ~LimitReached(st)
   /\ st.nextItem <= NItems)
    ~> (st.creating > 0 \/ Waiting(st) = {})

====
